---- MODULE Spec2Model ----
(***************************************************************************)
(* Resumable book generation: the sequential controller                    *)
(* createBookPageByPage (src/core/createbook.mjs) driving a BookManager    *)
(* (src/core/book_manager.mjs) whose checkpoint is one JSON file written   *)
(* through StateManager / FileHandler.                                     *)
(*                                                                         *)
(* One behaviour is the life of one book identifier: a sequence of runs of *)
(* the controller, each on a new BookManager, sharing the checkpoint file. *)
(* Every awaited call of the controller is one action; a call to an        *)
(* external collaborator (generation service, file system, document        *)
(* export, progress callback) either succeeds or throws.  A failed file    *)
(* write leaves the file as it was.                                        *)
(***************************************************************************)
EXTENDS Integers, Sequences, FiniteSets, TLC

\* ---------------------------------------------------------------- bounds
MaxChapters == 2
MaxPages == 2
MaxRuns == 3
MaxSessions == 2

\* ------------------------------------------------------------- value sets
Texts == {"a", "b"}
Outlines == {"o1"}
CoverUrls == {"u1"}
Absent == "absent"
EmptyObject == "{}"
Undefined == "undefined"
NoError == "none"

ChapterIds == 1..MaxChapters
PageIds == 1..MaxPages

VARIABLES
    chapters,          \* argument `chapters` of every run of this book
    pagesPerChapter,   \* argument `pagesPerChapter` of every run
    progressCallback,  \* TRUE when the run was given a progress callback
    disk,              \* the checkpoint file book_state.json
    files,             \* the page files the last saveProgress call of this
                       \* run wrote: chapter, page, and what the .json and
                       \* the .docx file hold
    bookManager,       \* the BookManager of the current run
    pc,                \* position of the current run in createBookPageByPage
    chapter,           \* loop variable `chapter`
    page,              \* loop variable `page`
    pageContent,       \* `pageContent` of the unit in flight
    error,             \* the error caught by the catch block
    outcome,           \* how the last run ended: none / returned / raised
    raised,            \* the error the caller received
    runs,              \* number of runs started
    log,               \* history: the external calls of the current run
    loaded,            \* history: what loadState found at the start of the run
    prevBoundary,      \* history: k+1 when the previous run failed generating
                       \* (k+1, 1) with chapters 1..k complete, else 0
    smCall,            \* the last direct StateManager call and its result
    smSaved,           \* history: the state of the last saveState that succeeded
    controller,        \* which controller of the single-file program runs
    language,          \* argument `language` of createBookWithBatch
    jobStatus,         \* `jobStatus` of the polling loop
    lastExtract,       \* history: how the last extractMetadata call went
    merged,            \* history: plot points merged in this run, counted to 2
    absorbed,          \* history: the first failure, other than a malformed
                       \* extraction response, that this run did not propagate
    compiled,          \* what the compileBook call of this run has written
                       \* to compiled/complete.json and complete.docx
    session            \* the BookWriterSession of the console program

\* the variables of a run of createBookPageByPage (createbook.mjs)
seqVars == <<chapters, pagesPerChapter, progressCallback, bookManager, pc,
             chapter, page, pageContent, error, outcome, raised, runs, log,
             loaded, prevBoundary>>

\* the variables of direct StateManager calls
storeVars == <<smCall, smSaved>>

\* the further variables of a run of the single-file program
monoVars == <<controller, language, jobStatus, lastExtract, merged, absorbed>>

\* what a run of createBookPageByPage leaves alone
notSeqVars == <<storeVars, monoVars, compiled, session>>

vars == <<seqVars, disk, files, storeVars, monoVars, compiled, session>>

\* ------------------------------------------------------ BookManager state
EmptyContent == [c \in ChapterIds |-> [p \in PageIds |-> Absent]]

InitialProgress ==
    [lastCompletedChapter |-> 0, lastCompletedPage |-> 0, status |-> "not_started"]

NewBookManager ==
    [progressState |-> InitialProgress,
     characters    |-> << >>,
     plotPoints    |-> << >>,
     bookContent   |-> EmptyContent,
     outline       |-> EmptyObject,
     metadata      |-> [coverImage |-> Undefined]]

\* a saveState that leaves the chapter of the cursor at 0
SnapshotNoChapter(bm) ==
    [progress    |-> [bm.progressState EXCEPT !.lastCompletedChapter = 0],
     characters  |-> bm.characters,
     plotPoints  |-> bm.plotPoints,
     bookContent |-> bm.bookContent,
     outline     |-> bm.outline,
     metadata    |-> bm.metadata]

\* BookManager.saveState: the record handed to StateManager.saveState
Snapshot(bm) ==
    [progress    |-> bm.progressState,
     characters  |-> bm.characters,
     plotPoints  |-> bm.plotPoints,
     bookContent |-> bm.bookContent,
     outline     |-> bm.outline,
     metadata    |-> bm.metadata]

\* a loadState that forgets the outline field
RestoreDropOutline(state) ==
    [progressState |-> state.progress,
     characters    |-> state.characters,
     plotPoints    |-> state.plotPoints,
     bookContent   |-> state.bookContent,
     outline       |-> EmptyObject,
     metadata      |-> state.metadata]

\* BookManager.loadState: every field replaced from the stored record
Restore(state) ==
    [progressState |-> state.progress,
     characters    |-> state.characters,
     plotPoints    |-> state.plotPoints,
     bookContent   |-> state.bookContent,
     outline       |-> state.outline,
     metadata      |-> state.metadata]

\* the checkpoint file: whether it exists, whether its text is JSON, and the
\* value its text denotes (JSON.stringify / JSON.parse keep the numbers,
\* strings and plain objects of a checkpoint record as they are)
NoFile == [exists |-> FALSE, parses |-> TRUE, state |-> Snapshot(NewBookManager)]

\* StateManager.updateState line 33: { ...currentState, ...updates }
Merge(currentState, updates) ==
    [f \in DOMAIN currentState \cup DOMAIN updates |->
        IF f \in DOMAIN updates THEN updates[f] ELSE currentState[f]]

\* a write that merges the new record into the stored one
WriteFileMerge(state) ==
    [exists |-> TRUE, parses |-> TRUE,
     state |-> IF disk.exists /\ disk.parses THEN Merge(disk.state, state)
               ELSE state]

\* StateManager.saveState / FileHandler.writeFile: the file is replaced
WriteFile(state) == [exists |-> TRUE, parses |-> TRUE, state |-> state]

NoValue == [null |-> TRUE]

\* fs.readFile + JSON.parse of FileHandler.readFile(path, true): the possible
\* outcomes on file d
FsRead(d) ==
    IF ~d.exists
    THEN {[err |-> "ENOENT", state |-> NoValue]}
    ELSE {[err |-> IF d.parses THEN "none" ELSE "SyntaxError",
           state |-> IF d.parses THEN d.state ELSE NoValue],
          [err |-> "EACCES", state |-> NoValue]}

\* a loadState that reports every failure as "no existing state"
LoadStateResultSwallow(read) ==
    IF read.err = "none"
    THEN [kind |-> "value", value |-> read.state, err |-> "none"]
    ELSE [kind |-> "null", value |-> NoValue, err |-> "none"]

\* StateManager.loadState: what the caller gets for a read outcome
LoadStateResult(read) ==
    IF read.err = "none"
    THEN [kind |-> "value", value |-> read.state, err |-> "none"]
    ELSE IF read.err = "ENOENT"
    THEN [kind |-> "null", value |-> NoValue, err |-> "none"]
    ELSE [kind |-> "throw", value |-> NoValue, err |-> read.err]

NoCall == [op |-> "none", read |-> [err |-> "none", state |-> NoValue],
           result |-> [kind |-> "none", value |-> NoValue, err |-> "none"]]

NothingSaved == [valid |-> FALSE, state |-> NoValue, before |-> NoFile]

Event(op, ch, pg, ok) == [op |-> op, ch |-> ch, pg |-> pg, ok |-> ok]

\* a saveProgress that forgets to store the page number
AdvanceProgressNoPage(bm, ch, pg) ==
    [bm EXCEPT !.progressState =
        [lastCompletedChapter |-> ch,
         lastCompletedPage |-> bm.progressState.lastCompletedPage,
         status |-> "in_progress"]]

\* lines 59-61 of BookManager.saveProgress
AdvanceProgress(bm, ch, pg) ==
    [bm EXCEPT !.progressState =
        [lastCompletedChapter |-> ch, lastCompletedPage |-> pg,
         status |-> "in_progress"]]

\* a controller that stores every page of a chapter under page 1
RecordPageFirst(bm, ch, pg, text) ==
    [bm EXCEPT !.bookContent[ch][1] = text]

\* lines 73-76 of createBookPageByPage
RecordPage(bm, ch, pg, text) ==
    [bm EXCEPT !.bookContent[ch][pg] = text]

\* a cover guard that is always true
NeedsCoverAlways(bm) == bm.metadata.coverImage = bm.metadata.coverImage

\* line 38 of createBookPageByPage: if (!bookManager.metadata.coverImage)
NeedsCover(bm) == bm.metadata.coverImage = Undefined

\* a resume that starts again at the last completed chapter
StartChapterSame(bm) ==
    IF bm.progressState.lastCompletedChapter = 0 THEN 1
    ELSE bm.progressState.lastCompletedChapter

\* line 51 of createBookPageByPage
StartChapter(bm) == bm.progressState.lastCompletedChapter + 1

\* a page loop that stops one page early (page < pagesPerChapter)
LoopPcShort(ch, pg) ==
    IF ch > chapters THEN "compile"
    ELSE IF pg >= pagesPerChapter THEN "chapterSave"
    ELSE IF progressCallback THEN "callback"
    ELSE "generate"

\* the for-loop heads of lines 52-56: where control goes for (ch, pg)
LoopPc(ch, pg) ==
    IF ch > chapters THEN "compile"
    ELSE IF pg > pagesPerChapter THEN "chapterSave"
    ELSE IF progressCallback THEN "callback"
    ELSE "generate"

HasPage(content, c, p) == content[c][p] # Absent

ChaptersComplete(content, k) ==
    \A c \in 1..k : \A p \in 1..pagesPerChapter : HasPage(content, c, p)

\* ------------------------------------------------------------ page files
NoArtifact == [type |-> "none"]

NoArtifacts ==
    [chapter |-> 0, page |-> 0, json |-> NoArtifact, docx |-> NoArtifact]

\* saveProgress lines 45-52: the object { chapter, page, content, timestamp }
PageRecord(content, c, p) ==
    [type |-> "object", chapter |-> c, page |-> p, content |-> content,
     timestamp |-> "now"]

\* createDocxDocument: the Buffer that Packer.toBuffer(doc) resolves to
DocxBuffer(content, c, p) ==
    [type |-> "buffer", heading |-> <<c, p>>, text |-> content]

\* the JavaScript typeof: a Buffer is an 'object'
TypeOf(content) ==
    IF content.type \in {"object", "buffer"} THEN "object" ELSE content.type

\* JSON.stringify(value, null, 2): a string, the JSON text of value
JsonStringify(value) == [type |-> "string", json |-> value]

\* FileHandler.writeFile lines 19-23: what fs.writeFile is given
FileHandlerContent(content) ==
    IF TypeOf(content) = "object" THEN JsonStringify(content) ELSE content

\* the .json file of (c, p) was written, its .docx file not yet
JsonWritten(c, p, data) ==
    [chapter |-> c, page |-> p, json |-> data, docx |-> NoArtifact]

\* the .docx file of the same page was written too
DocxWritten(f, data) == [f EXCEPT !.docx = data]

\* neither compileJSON nor compileDOCX has written its file
NoCompiled == [json |-> NoArtifact, docx |-> NoArtifact]

\* BookWriterSession.constructor
NewSession ==
    [isPaused |-> FALSE, isStopped |-> FALSE,
     currentChapter |-> 1, currentPage |-> 1]

\* ------------------------------------------------------------------- Init
\* no run of the controller has started
SeqIdle ==
    /\ progressCallback = FALSE
    /\ bookManager = NewBookManager
    /\ pc = "idle"
    /\ chapter = 0
    /\ page = 0
    /\ pageContent = Absent
    /\ error = NoError
    /\ outcome = "none"
    /\ raised = NoError
    /\ runs = 0
    /\ log = << >>
    /\ loaded = NoFile
    /\ prevBoundary = 0
    /\ compiled = NoCompiled
    /\ session = NewSession

\* no direct StateManager call has been made
StoreIdle ==
    /\ smCall = NoCall
    /\ smSaved = NothingSaved

PlotStrings == {"Twist", "twist"}

\* no run of the single-file program has started
MonoIdle ==
    /\ controller = "none"
    /\ language = "en"
    /\ jobStatus = "none"
    /\ lastExtract = "none"
    /\ merged = [s \in PlotStrings |-> 0]
    /\ absorbed = "none"

Init ==
    /\ chapters \in 1..MaxChapters
    /\ pagesPerChapter \in 1..MaxPages
    /\ disk = NoFile
    /\ files = NoArtifacts
    /\ SeqIdle
    /\ StoreIdle
    /\ MonoIdle

\* ------------------------------------------------------- control transfer
Throw(e) ==
    /\ pc' = "catch"
    /\ error' = e

\* ---------------------------------------------------------------- actions

\* line 14 of createBookPageByPage: new BookManager(bookName), the locals
NewRun ==
    /\ pc = "idle"
    /\ runs' = runs + 1
    /\ bookManager' = NewBookManager
    /\ pc' = "ensureDirectories"
    /\ chapter' = 0
    /\ page' = 0
    /\ pageContent' = Absent
    /\ error' = NoError
    /\ outcome' = "none"
    /\ raised' = NoError
    /\ log' = << >>
    /\ loaded' = NoFile
    /\ prevBoundary' =
         IF /\ outcome = "raised"
            /\ error = "generation"
            /\ page = 1
            /\ chapter >= 2
            /\ ChaptersComplete(bookManager.bookContent, chapter - 1)
         THEN chapter ELSE 0
    /\ files' = NoArtifacts
    /\ compiled' = NoCompiled
    /\ UNCHANGED <<chapters, pagesPerChapter, disk>>
    /\ UNCHANGED <<storeVars, monoVars>>

\* createBookPageByPage is called, with or without a progress callback
StartRun ==
    /\ runs < MaxRuns
    /\ NewRun
    /\ progressCallback' \in BOOLEAN
    /\ UNCHANGED session

\* line 17: await bookManager.ensureDirectories()
EnsureDirectories ==
    /\ pc = "ensureDirectories"
    /\ \/ /\ pc' = "loadState"
          /\ UNCHANGED error
       \/ Throw("directories")
    /\ UNCHANGED <<chapters, pagesPerChapter, progressCallback, disk,
                   bookManager, chapter, page, pageContent, outcome, raised,
                   runs, log, loaded, prevBoundary>>
    /\ UNCHANGED <<notSeqVars, files>>

\* line 20: await bookManager.loadState(), then the branch of line 21
LoadState ==
    /\ pc = "loadState"
    /\ \E read \in FsRead(disk) :
         LET state == LoadStateResult(read)
         IN /\ log' = Append(log, Event("load", 0, 0, state.kind # "throw"))
            /\ \/ /\ state.kind = "value"
                  /\ bookManager' = Restore(state.value)
                  /\ loaded' = disk
                  /\ pc' = "cover"
                  /\ UNCHANGED error
               \/ /\ state.kind = "null"
                  /\ pc' = "outline"
                  /\ UNCHANGED <<bookManager, loaded, error>>
               \/ /\ state.kind = "throw"
                  /\ Throw("read")
                  /\ UNCHANGED <<bookManager, loaded>>
    /\ UNCHANGED <<chapters, pagesPerChapter, progressCallback, disk, chapter,
                   page, pageContent, outcome, raised, runs, prevBoundary>>
    /\ UNCHANGED <<notSeqVars, files>>

\* lines 26-34: the outline request
CreateOutline ==
    /\ pc = "outline"
    /\ \/ \E o \in Outlines :
            /\ bookManager' = [bookManager EXCEPT !.outline = o]
            /\ log' = Append(log, Event("outline", 0, 0, TRUE))
            /\ pc' = "cover"
            /\ UNCHANGED error
       \/ /\ log' = Append(log, Event("outline", 0, 0, FALSE))
          /\ Throw("outline")
          /\ UNCHANGED bookManager
    /\ UNCHANGED <<chapters, pagesPerChapter, progressCallback, disk, chapter,
                   page, pageContent, outcome, raised, runs, loaded,
                   prevBoundary>>
    /\ UNCHANGED <<notSeqVars, files>>

\* lines 38-51: the cover, then the start of the chapter loop
GenerateCover ==
    /\ pc = "cover"
    /\ \/ /\ ~NeedsCover(bookManager)
          /\ chapter' = StartChapter(bookManager)
          /\ page' = 1
          /\ pc' = LoopPc(StartChapter(bookManager), 1)
          /\ UNCHANGED <<bookManager, log, error>>
       \/ /\ NeedsCover(bookManager)
          /\ \E u \in CoverUrls :
               bookManager' = [bookManager EXCEPT !.metadata.coverImage = u]
          /\ log' = Append(log, Event("image", 0, 0, TRUE))
          /\ \/ /\ chapter' = StartChapter(bookManager)
                /\ page' = 1
                /\ pc' = LoopPc(StartChapter(bookManager), 1)
                /\ UNCHANGED error
             \/ /\ Throw("coverSave")
                /\ UNCHANGED <<chapter, page>>
       \/ /\ NeedsCover(bookManager)
          /\ log' = Append(log, Event("image", 0, 0, FALSE))
          /\ Throw("image")
          /\ UNCHANGED <<bookManager, chapter, page>>
    /\ UNCHANGED <<chapters, pagesPerChapter, progressCallback, disk,
                   pageContent, outcome, raised, runs, loaded, prevBoundary>>
    /\ UNCHANGED <<notSeqVars, files>>

\* lines 54-56: await progressCallback(chapter, page)
ProgressCallback ==
    /\ pc = "callback"
    /\ \/ /\ log' = Append(log, Event("callback", chapter, page, TRUE))
          /\ pc' = "generate"
          /\ UNCHANGED error
       \/ /\ log' = Append(log, Event("callback", chapter, page, FALSE))
          /\ Throw("cancelled")
    /\ UNCHANGED <<chapters, pagesPerChapter, progressCallback, disk,
                   bookManager, chapter, page, pageContent, outcome, raised,
                   runs, loaded, prevBoundary>>
    /\ UNCHANGED <<notSeqVars, files>>

\* lines 60-69: the page-generation call
GeneratePage ==
    /\ pc = "generate"
    /\ \/ \E t \in Texts :
            /\ pageContent' = t
            /\ log' = Append(log, Event("generate", chapter, page, TRUE))
            /\ pc' = "saveProgress"
            /\ UNCHANGED error
       \/ /\ log' = Append(log, Event("generate", chapter, page, FALSE))
          /\ Throw("generation")
          /\ UNCHANGED pageContent
    /\ UNCHANGED <<chapters, pagesPerChapter, progressCallback, disk,
                   bookManager, chapter, page, outcome, raised, runs, loaded,
                   prevBoundary>>
    /\ UNCHANGED <<notSeqVars, files>>

\* a page loop that does not move on
NextPageStay(p) == p

\* line 53: page++
NextPage(p) == p + 1

\* line 70, BookManager.saveProgress, then lines 73-76 and the page++
SaveProgress ==
    /\ pc = "saveProgress"
    /\ LET advanced == AdvanceProgress(bookManager, chapter, page)
           json == FileHandlerContent(PageRecord(pageContent, chapter, page))
           docx == FileHandlerContent(DocxBuffer(pageContent, chapter, page))
           written == DocxWritten(JsonWritten(chapter, page, json), docx)
       IN \/ \* the write of the page JSON throws
             /\ log' = Append(log, Event("artifact", chapter, page, FALSE))
             /\ Throw("artifact")
             /\ UNCHANGED <<bookManager, disk, files, page, pageContent>>
          \/ \* the page JSON is written, the export document throws
             /\ files' = JsonWritten(chapter, page, json)
             /\ log' = Append(log, Event("artifact", chapter, page, FALSE))
             /\ Throw("artifact")
             /\ UNCHANGED <<bookManager, disk, page, pageContent>>
          \/ \* artifacts written, progress set, the checkpoint write throws
             /\ files' = written
             /\ bookManager' = advanced
             /\ log' = log \o <<Event("artifact", chapter, page, TRUE),
                                Event("write", chapter, page, FALSE)>>
             /\ Throw("write")
             /\ UNCHANGED <<disk, page, pageContent>>
          \/ \* saveProgress returns; the page is put into bookContent
             /\ files' = written
             /\ disk' = WriteFile(Snapshot(advanced))
             /\ bookManager' = RecordPage(advanced, chapter, page, pageContent)
             /\ log' = log \o <<Event("artifact", chapter, page, TRUE),
                                Event("write", chapter, page, TRUE)>>
             /\ page' = NextPage(page)
             /\ pageContent' = Absent
             /\ pc' = LoopPc(chapter, NextPage(page))
             /\ UNCHANGED error
    /\ UNCHANGED <<chapters, pagesPerChapter, progressCallback, chapter,
                   outcome, raised, runs, loaded, prevBoundary>>
    /\ UNCHANGED notSeqVars

\* line 78: await bookManager.saveState() after the pages of a chapter
ChapterSaveState ==
    /\ pc = "chapterSave"
    /\ \/ /\ disk' = WriteFile(Snapshot(bookManager))
          /\ log' = Append(log, Event("chapterWrite", chapter, 0, TRUE))
          /\ chapter' = chapter + 1
          /\ page' = 1
          /\ pc' = LoopPc(chapter + 1, 1)
          /\ UNCHANGED error
       \/ /\ log' = Append(log, Event("chapterWrite", chapter, 0, FALSE))
          /\ Throw("write")
          /\ UNCHANGED <<disk, chapter, page>>
    /\ UNCHANGED <<chapters, pagesPerChapter, progressCallback, bookManager,
                   pageContent, outcome, raised, runs, loaded, prevBoundary>>
    /\ UNCHANGED <<notSeqVars, files>>

\* orders in which the integer keys lo..hi can have been inserted: the
\* ascending and the descending one
Orders(lo, hi) ==
    {[i \in 1..(hi - lo + 1) |-> lo + i - 1],
     [i \in 1..(hi - lo + 1) |-> hi - i + 1]}

\* the keys of an insertion order that are among the keys an object has
Inserted(order, keys) == SelectSeq(order, LAMBDA k : k \in keys)

\* an enumeration of the keys in the order they were inserted
OwnKeysInserted(inserted) == inserted

\* Object.entries on an object whose keys are integers: ascending order of
\* the keys, whatever the order they were inserted in
OwnKeys(inserted) == SortSeq(inserted, LAMBDA a, b : a < b)

\* the chapters that have a page in a content map
ContentChapters(content) ==
    {c \in ChapterIds : \E p \in PageIds : HasPage(content, c, p)}

ContentPages(content, c) == {p \in PageIds : HasPage(content, c, p)}

\* compileDOCX lines 130-143: one section per entry of bookContent, in each
\* a heading and a text per entry of the chapter (the pair of .flat()),
\* for a content map whose keys were inserted in the orders given
DocxSections(content, chapterOrder, pageOrder) ==
    LET cs == OwnKeys(Inserted(chapterOrder, ContentChapters(content)))
    IN [i \in DOMAIN cs |->
          LET ps == OwnKeys(Inserted(pageOrder, ContentPages(content, cs[i])))
          IN [j \in DOMAIN ps |->
                [heading |-> <<cs[i], ps[j]>>,
                 text |-> content[cs[i]][ps[j]]]]]

\* Packer.toBuffer(doc) of compileDOCX
CompiledBuffer(sections) == [type |-> "buffer", sections |-> sections]

\* lines 82-90: compileBook (compileJSON, then compileDOCX) and the return
CompileBook ==
    /\ pc = "compile"
    /\ \/ \* ensureDirectories or the write of complete.json throws
          /\ log' = Append(log, Event("compile", 0, 0, FALSE))
          /\ Throw("compile")
          /\ UNCHANGED <<outcome, compiled>>
       \/ \* complete.json is written, the write of complete.docx throws
          /\ compiled' = [compiled EXCEPT
                              !.json = JsonStringify(bookManager.bookContent)]
          /\ log' = Append(log, Event("compile", 0, 0, FALSE))
          /\ Throw("compile")
          /\ UNCHANGED outcome
       \/ \E chapterOrder \in Orders(1, MaxChapters) :
          \E pageOrder \in Orders(1, MaxPages) :
            LET buffer == CompiledBuffer(DocxSections(bookManager.bookContent,
                                                      chapterOrder, pageOrder))
            IN /\ compiled' = [json |-> JsonStringify(bookManager.bookContent),
                               docx |-> FileHandlerContent(buffer)]
               /\ log' = Append(log, Event("compile", 0, 0, TRUE))
               /\ outcome' = "returned"
               /\ pc' = "idle"
               /\ UNCHANGED error
    /\ UNCHANGED <<chapters, pagesPerChapter, progressCallback, disk,
                   bookManager, chapter, page, pageContent, raised, runs,
                   loaded, prevBoundary>>
    /\ UNCHANGED <<storeVars, monoVars, files, session>>

\* the error the caller receives when the catch block's saveState succeeded
\* (ok) or threw (lines 94-95)
Rethrown(caught, ok) == IF ok THEN caught ELSE "write"

\* lines 92-96: the catch block
Catch ==
    /\ pc = "catch"
    /\ \E ok \in BOOLEAN :
         /\ disk' = IF ok THEN WriteFile(Snapshot(bookManager)) ELSE disk
         /\ log' = Append(log, Event("catchWrite", 0, 0, ok))
         /\ raised' = Rethrown(error, ok)
    /\ outcome' = "raised"
    /\ pc' = "idle"
    /\ UNCHANGED <<chapters, pagesPerChapter, progressCallback, bookManager,
                   chapter, page, pageContent, error, runs, loaded,
                   prevBoundary>>
    /\ UNCHANGED <<notSeqVars, files>>

Next ==
    \/ StartRun
    \/ EnsureDirectories
    \/ LoadState
    \/ CreateOutline
    \/ GenerateCover
    \/ ProgressCallback
    \/ GeneratePage
    \/ SaveProgress
    \/ ChapterSaveState
    \/ CompileBook
    \/ Catch

Spec == Init /\ [][Next]_vars

\* ------------------------------------------------- the console program
\* test_book_writer.mjs: startBookCreation runs createBookPageByPage with a
\* callback that looks at the session, while the listener of stdin calls
\* pause, resume and stop between two steps of the run.

\* the process of the console program is running
Running == pc # "idle"

\* startBookCreation: new BookWriterSession, then createBookPageByPage with
\* the callback of lines 192-205
StartBookCreation ==
    /\ runs < MaxSessions
    /\ NewRun
    /\ progressCallback' = TRUE
    /\ session' = NewSession

\* a callback that does not look at isPaused
WaitsNever(s) == FALSE

\* line 197 of the callback: while (session.isPaused)
Waits(s) == s.isPaused

\* lines 201-204 of the callback: stopped raises, else the callback returns
CallbackReturns ==
    \/ /\ session.isStopped
       /\ log' = Append(log, Event("callback", chapter, page, FALSE))
       /\ Throw("cancelled")
    \/ /\ ~session.isStopped
       /\ log' = Append(log, Event("callback", chapter, page, TRUE))
       /\ pc' = "generate"
       /\ UNCHANGED error

\* lines 192-205: the callback is called with (chapter, page); it waits in
\* the loop of line 197 when the session is paused
SessionCallback ==
    /\ pc = "callback"
    /\ session' = [session EXCEPT !.currentChapter = chapter,
                                  !.currentPage = page]
    /\ \/ /\ Waits(session)
          /\ pc' = "paused"
          /\ UNCHANGED <<log, error>>
       \/ /\ ~Waits(session)
          /\ CallbackReturns
    /\ UNCHANGED <<chapters, pagesPerChapter, progressCallback, disk,
                   bookManager, chapter, page, pageContent, outcome, raised,
                   runs, loaded, prevBoundary>>
    /\ UNCHANGED <<storeVars, monoVars, compiled, files>>

\* lines 197-199: the timer of the waiting callback finds isPaused false
PauseWaitEnds ==
    /\ pc = "paused"
    /\ ~Waits(session)
    /\ CallbackReturns
    /\ UNCHANGED <<chapters, pagesPerChapter, progressCallback, disk,
                   bookManager, chapter, page, pageContent, outcome, raised,
                   runs, loaded, prevBoundary>>
    /\ UNCHANGED <<notSeqVars, files>>

\* the command 'pause': BookWriterSession.pause
Pause ==
    /\ Running
    /\ ~session.isPaused
    /\ session' = [session EXCEPT !.isPaused = TRUE]
    /\ UNCHANGED <<seqVars, disk, files, storeVars, monoVars, compiled>>

\* the command 'resume': BookWriterSession.resume
Resume ==
    /\ Running
    /\ session.isPaused
    /\ session' = [session EXCEPT !.isPaused = FALSE]
    /\ UNCHANGED <<seqVars, disk, files, storeVars, monoVars, compiled>>

\* the command 'stop': BookWriterSession.stop sets isStopped and calls
\* process.exit(0), which ends the process at once
Stop ==
    /\ Running
    /\ session' = [session EXCEPT !.isStopped = TRUE]
    /\ pc' = "idle"
    /\ outcome' = "exited"
    /\ UNCHANGED <<chapters, pagesPerChapter, progressCallback, disk,
                   bookManager, chapter, page, pageContent, error, raised,
                   runs, log, loaded, prevBoundary>>
    /\ UNCHANGED <<storeVars, monoVars, compiled, files>>

SessionNext ==
    \/ StartBookCreation
    \/ EnsureDirectories
    \/ LoadState
    \/ CreateOutline
    \/ GenerateCover
    \/ SessionCallback
    \/ PauseWaitEnds
    \/ GeneratePage
    \/ SaveProgress
    \/ ChapterSaveState
    \/ CompileBook
    \/ Catch
    \/ Pause
    \/ Resume
    \/ Stop

SessionSpec == Init /\ [][SessionNext]_vars

\* ---------------------------------------------------- history projections
GenCalls == SelectSeq(log, LAMBDA e : e.op = "generate")

Count(op) == Len(SelectSeq(log, LAMBDA e : e.op = op))

GeneratedInRun(c, p) ==
    \E i \in DOMAIN log : log[i].op = "generate" /\ log[i].ch = c /\ log[i].pg = p

\* (c1, p1) is (c2, p2) or a later unit
NotBefore(c1, p1, c2, p2) == c1 > c2 \/ (c1 = c2 /\ p1 >= p2)

Cursor(progress) == <<progress.lastCompletedChapter, progress.lastCompletedPage>>

OkWrites == SelectSeq(log, LAMBDA e : e.op = "write" /\ e.ok)

\* the last unit whose saveProgress returned in this run, else the loaded cursor
LastCompletedUnit ==
    IF OkWrites # << >>
    THEN <<OkWrites[Len(OkWrites)].ch, OkWrites[Len(OkWrites)].pg>>
    ELSE Cursor(loaded.state.progress)

Fresh == ~loaded.exists

\* ------------------------------------------------------------------ claims

\* C1: resume point.  For a loaded checkpoint with lastCompletedChapter = c >= 1
\* and lastCompletedPage = p, the first page-generation call of the run is for
\* (c, p+1) when p < pagesPerChapter and for (c+1, 1) otherwise.
C1_ResumePoint ==
    (loaded.exists /\ loaded.state.progress.lastCompletedChapter >= 1
        /\ GenCalls # << >>)
    => LET c == loaded.state.progress.lastCompletedChapter
           p == loaded.state.progress.lastCompletedPage
           g == Head(GenCalls)
       IN IF p < pagesPerChapter
          THEN g.ch = c /\ g.pg = p + 1
          ELSE g.ch = c + 1 /\ g.pg = 1

\* C2: no content gaps.  When a run has returned successfully, every chapter
\* c <= lastCompletedChapter of the checkpoint has every page
\* 1..pagesPerChapter in the checkpoint's content map.
C2_NoContentGaps ==
    (pc = "idle" /\ outcome = "returned" /\ disk.exists)
    => ChaptersComplete(disk.state.bookContent,
                        disk.state.progress.lastCompletedChapter)

\* C3: progress never points at unpersisted content.  In every checkpoint
\* with cursor (c, p), c >= 1, the content map of that checkpoint has
\* content[c][q] for every q in 1..p.
C3_CursorHasContent ==
    (disk.exists /\ disk.state.progress.lastCompletedChapter >= 1)
    => \A q \in 1..disk.state.progress.lastCompletedPage :
          HasPage(disk.state.bookContent,
                  disk.state.progress.lastCompletedChapter, q)

\* C4: an unconfirmed write does not advance progress.  Once the checkpoint
\* write of saveProgress for unit (c, p) has failed, neither the in-memory
\* cursor nor the checkpoint on disk is (c, p).
C4_FailedWriteNoAdvance ==
    \A i \in DOMAIN log :
        (log[i].op = "write" /\ ~log[i].ok)
        => /\ Cursor(bookManager.progressState) # <<log[i].ch, log[i].pg>>
           /\ Cursor(disk.state.progress) # <<log[i].ch, log[i].pg>>

\* C5: failure at a chapter boundary.  When the generation call for page 1 of
\* chapter k+1 (k >= 1) fails and every page of chapters 1..k is in the
\* content map, the checkpoint left behind has cursor (k, pagesPerChapter);
\* the first page-generation call of the next run is for (k+1, 1).
C5_BoundaryFailure ==
    /\ (pc = "idle" /\ outcome = "raised" /\ error = "generation"
          /\ page = 1 /\ chapter >= 2
          /\ ChaptersComplete(bookManager.bookContent, chapter - 1))
       => (disk.exists
           /\ Cursor(disk.state.progress) = <<chapter - 1, pagesPerChapter>>)
    /\ (prevBoundary > 0 /\ GenCalls # << >>)
       => (Head(GenCalls).ch = prevBoundary /\ Head(GenCalls).pg = 1)

C5_Witness ==
    /\ prevBoundary > 0
    /\ GenCalls # << >>
    /\ Head(GenCalls).ok

\* C6: a resumed run never regenerates or overwrites content.  For every
\* page present in the loaded checkpoint, the run issues no page-generation
\* call for it, and the checkpoint and the in-memory content map keep its
\* loaded value.
C6_ResumeKeepsContent ==
    loaded.exists
    => \A c \in ChapterIds : \A p \in PageIds :
         HasPage(loaded.state.bookContent, c, p)
         => /\ ~GeneratedInRun(c, p)
            /\ disk.state.bookContent[c][p] = loaded.state.bookContent[c][p]
            /\ bookManager.bookContent[c][p] = loaded.state.bookContent[c][p]

C6_Witness ==
    /\ loaded.exists
    /\ \E c \in ChapterIds : \E p \in PageIds :
         HasPage(loaded.state.bookContent, c, p)
    /\ OkWrites # << >>
    /\ disk.state.bookContent # loaded.state.bookContent

\* C7: a unit failure is checkpointed and re-raised unchanged.  When a
\* page-generation call has failed and the run has ended, exactly one
\* checkpoint write was attempted after it and the caller received the
\* generation failure itself.
C7_UnitFailureRethrown ==
    (pc = "idle" /\ outcome = "raised" /\ error = "generation")
    => /\ Count("catchWrite") = 1
       /\ raised = "generation"

\* C8: cancellation.  When the progress callback raised before unit (c, p)
\* and the run has ended, no page-generation call was issued for (c, p) or a
\* later unit, one final checkpoint was written whose cursor is the last
\* completed unit, and the caller received the callback's own error.
C8_Cancellation ==
    (pc = "idle" /\ outcome = "raised" /\ error = "cancelled")
    => /\ \A i \in DOMAIN log :
            log[i].op = "generate"
            => ~NotBefore(log[i].ch, log[i].pg, chapter, page)
       /\ Count("catchWrite") = 1
       /\ log[Len(log)].ok
       /\ Cursor(disk.state.progress) = LastCompletedUnit
       /\ raised = "cancelled"

\* C9: a fresh run of N chapters of M pages that returns successfully made
\* N*M per-page checkpoint writes and N chapter-boundary writes, no other
\* checkpoint write, and left a checkpoint with cursor (N, M).
C9_FreshRunWrites ==
    (pc = "idle" /\ outcome = "returned" /\ Fresh)
    => /\ Count("write") = chapters * pagesPerChapter
       /\ Count("chapterWrite") = chapters
       /\ Count("catchWrite") = 0
       /\ disk.exists
       /\ Cursor(disk.state.progress) = <<chapters, pagesPerChapter>>

C9_Witness ==
    /\ pc = "idle" /\ outcome = "returned" /\ Fresh
    /\ chapters = 2 /\ pagesPerChapter = 2
    /\ Count("write") = 4 /\ Count("chapterWrite") = 2

\* C10: completed status.  When a run has returned successfully, status is
\* 'completed' in the in-memory progress and in the checkpoint.
C10_CompletedStatus ==
    (pc = "idle" /\ outcome = "returned")
    => /\ bookManager.progressState.status = "completed"
       /\ disk.exists
       /\ disk.state.progress.status = "completed"

\* ---------------------------------------------------- history projections
\* position in the log of the first event of kind op, 0 when there is none
FirstIndex(op) ==
    IF \E i \in DOMAIN log : log[i].op = op
    THEN CHOOSE i \in DOMAIN log :
            log[i].op = op /\ \A j \in 1..(i - 1) : log[j].op # op
    ELSE 0

CheckpointOps == {"write", "chapterWrite", "catchWrite"}

\* the run has passed the checkpoint load and found a checkpoint / none
Resumed == loaded.exists

LoadedNothing ==
    /\ ~loaded.exists
    /\ \E i \in DOMAIN log : log[i].op = "load" /\ log[i].ok

\* C11: checkpoint on every exit path.  When a run has returned or raised,
\* it has performed at least one checkpoint write.
C11_CheckpointOnExit ==
    (pc = "idle" /\ outcome # "none")
    => \E i \in DOMAIN log : log[i].op \in CheckpointOps

\* C12: cover idempotence.  A run that loaded a checkpoint with coverImage
\* set makes no image-generation call; any run makes at most one, and a run
\* without a loaded coverImage that issues a page-generation call has made
\* exactly one image-generation call, before that call.
C12_CoverIdempotence ==
    /\ (Resumed /\ loaded.state.metadata.coverImage # Undefined)
       => Count("image") = 0
    /\ Count("image") <= 1
    /\ (GenCalls # << >>
          /\ ~(Resumed /\ loaded.state.metadata.coverImage # Undefined))
       => /\ Count("image") = 1
          /\ FirstIndex("image") < FirstIndex("generate")

C12_Witness ==
    /\ Resumed
    /\ loaded.state.metadata.coverImage # Undefined
    /\ GenCalls # << >>

\* C13: INIT transition.  A run that loaded a checkpoint issues no outline
\* request, keeps the loaded outline and its first page-generation call is
\* for (lastCompletedChapter + 1, 1).  A run that found no checkpoint and
\* has left the outline step has issued exactly one outline request; when it
\* issues a page-generation call the outline is the response, stored before
\* that call, and the first call is for (1, 1).
C13_InitTransition ==
    /\ Resumed
       => /\ Count("outline") = 0
          /\ bookManager.outline = loaded.state.outline
          /\ GenCalls # << >>
             => /\ Head(GenCalls).ch
                     = loaded.state.progress.lastCompletedChapter + 1
                /\ Head(GenCalls).pg = 1
    /\ (LoadedNothing /\ pc # "outline")
       => /\ Count("outline") = 1
          /\ GenCalls # << >>
             => /\ bookManager.outline \in Outlines
                /\ FirstIndex("outline") < FirstIndex("generate")
                /\ Head(GenCalls).ch = 1
                /\ Head(GenCalls).pg = 1

C13_Witness ==
    /\ Resumed
    /\ loaded.state.outline \in Outlines
    /\ loaded.state.progress.lastCompletedChapter >= 1
    /\ GenCalls # << >>

\* ------------------------------------------- direct StateManager calls
\* A second specification: the checkpoint store on its own.  The file starts
\* missing, corrupt or holding any stored record, and saveState, loadState
\* and updateState are called in any order.

Cursors ==
    {InitialProgress,
     [lastCompletedChapter |-> 1, lastCompletedPage |-> 1,
      status |-> "in_progress"]}

\* records handed to saveState / updateState: whole snapshots and records
\* that lack fields
StoredStates ==
    {[progress |-> p] : p \in Cursors}
      \cup {[outline |-> o] : o \in Outlines}
      \cup {[progress |-> p, outline |-> o] : p \in Cursors, o \in Outlines}
      \cup {[progress |-> p, metadata |-> [coverImage |-> u]] :
              p \in Cursors, u \in CoverUrls}
      \cup {Snapshot(NewBookManager)}

CorruptFile == [exists |-> TRUE, parses |-> FALSE, state |-> NoValue]

\* a file whose text is the JSON of S
FileHolding(S) == [exists |-> TRUE, parses |-> TRUE, state |-> S]

InitialFiles == {NoFile, CorruptFile} \cup {FileHolding(S) : S \in StoredStates}

EmptyRecord == << >>

Call(op, read, kind, value, err) ==
    [op |-> op, read |-> read,
     result |-> [kind |-> kind, value |-> value, err |-> err]]

StoreInit ==
    /\ chapters = 1
    /\ pagesPerChapter = 1
    /\ disk \in InitialFiles
    /\ files = NoArtifacts
    /\ SeqIdle
    /\ StoreIdle
    /\ MonoIdle

\* StateManager.saveState(state)
SMSaveState ==
    /\ \E S \in StoredStates :
         \/ /\ disk' = WriteFile(S)
            /\ smCall' = Call("saveState", NoCall.read, "ok", S, "none")
            /\ smSaved' = [valid |-> TRUE, state |-> S, before |-> disk]
         \/ /\ smCall' = Call("saveState", NoCall.read, "throw", S, "EACCES")
            /\ UNCHANGED <<disk, smSaved>>
    /\ UNCHANGED <<chapters, pagesPerChapter, seqVars, monoVars, files, compiled, session>>

\* StateManager.loadState()
SMLoadState ==
    /\ \E read \in FsRead(disk) :
         smCall' = [op |-> "loadState", read |-> read,
                    result |-> LoadStateResult(read)]
    /\ UNCHANGED <<chapters, pagesPerChapter, seqVars, disk, smSaved,
                   monoVars, files, compiled, session>>

\* StateManager.updateState(updates)
SMUpdateState ==
    /\ \E updates \in StoredStates : \E read \in FsRead(disk) :
         LET current == LoadStateResult(read)
             currentState == IF current.kind = "value" THEN current.value
                             ELSE EmptyRecord
             newState == Merge(currentState, updates)
         IN \/ /\ current.kind = "throw"
               /\ smCall' = Call("updateState", read, "throw", NoValue,
                                 current.err)
               /\ UNCHANGED <<disk, smSaved>>
            \/ /\ current.kind # "throw"
               /\ disk' = WriteFile(newState)
               /\ smCall' = Call("updateState", read, "ok", newState, "none")
               /\ smSaved' = [valid |-> TRUE, state |-> newState,
                              before |-> disk]
            \/ /\ current.kind # "throw"
               /\ smCall' = Call("updateState", read, "throw", NoValue,
                                 "EACCES")
               /\ UNCHANGED <<disk, smSaved>>
    /\ UNCHANGED <<chapters, pagesPerChapter, seqVars, monoVars, files, compiled, session>>

StoreNext ==
    \/ SMSaveState
    \/ SMLoadState
    \/ SMUpdateState

StoreSpec == StoreInit /\ [][StoreNext]_vars

\* C14: checkpoint load normalisation.  StateManager.loadState returns null
\* exactly when the read failed with ENOENT, raises every other read or
\* parse failure to the caller with that error, and returns the stored value
\* of a readable checkpoint.
C14_LoadNormalisation ==
    smCall.op = "loadState"
    => /\ (smCall.result.kind = "null") <=> (smCall.read.err = "ENOENT")
       /\ (smCall.read.err = "ENOENT") <=> ~disk.exists
       /\ smCall.read.err \notin {"none", "ENOENT"}
          => /\ smCall.result.kind = "throw"
             /\ smCall.result.err = smCall.read.err
       /\ smCall.read.err = "none"
          => /\ smCall.result.kind = "value"
             /\ smCall.result.value = disk.state

C14_Witness ==
    /\ smCall.op = "loadState"
    /\ smCall.read.err = "SyntaxError"
    /\ smCall.result.kind = "throw"

\* C15: checkpoint writes replace, never merge.  After a saveState(S) that
\* succeeded, the file holds exactly S and a loadState that returns, returns
\* exactly S (no field of the previous checkpoint that S lacks survives).
C15_WriteReplaces ==
    smSaved.valid
    => /\ disk.exists /\ disk.parses /\ disk.state = smSaved.state
       /\ (smCall.op = "loadState" /\ smCall.result.kind # "throw")
          => /\ smCall.result.kind = "value"
             /\ smCall.result.value = smSaved.state
             /\ DOMAIN smCall.result.value = DOMAIN smSaved.state

C15_Witness ==
    /\ smSaved.valid
    /\ smSaved.before.exists /\ smSaved.before.parses
    /\ DOMAIN smSaved.before.state \ DOMAIN smSaved.state # {}
    /\ smCall.op = "loadState"
    /\ smCall.result.kind = "value"

\* ------------------------------------------------ the single-file program
\* A third specification: the BookManager, createBookPageByPage and
\* createBookWithBatch of the single-file program, which keep their
\* checkpoint in book_state.json.  A behaviour is one call of either
\* controller, in a working directory that is empty or holds the checkpoint
\* an earlier call left.
\* The log holds the calls whose failure ends the run; a failure that the
\* program does not propagate is kept in `absorbed`.

MaxBookChapters == 2
MaxBookPages == 2

CharacterNames == {"John"}
CharacterDetails == {"d1", "d2"}
Languages == {"en", "es", "xx"}
PageTexts == {"a"}
MonoOutlines == {"o1", "o2"}
JobStatuses == {"in_progress", "failed", "completed"}

\* BookManager.supportedLanguages
SupportedLanguages == {"en", "es", "fr", "de", "it", "ja", "zh"}

NoCharacters == [n \in {} |-> NoValue]

\* BookManager.constructor
MonoNewBookManager ==
    [currentChapter |-> 1,
     progressState  |-> InitialProgress,
     characters     |-> NoCharacters,
     plotPoints     |-> << >>,
     bookContent    |-> EmptyContent,
     outline        |-> EmptyObject,
     metadata       |-> [coverImage |-> Undefined]]

\* BatchBookManager.constructor: super(), batchTasks, batchResults
NewBatchBookManager ==
    [f \in DOMAIN MonoNewBookManager \cup {"batchTasks", "batchResults"} |->
        IF f \in {"batchTasks", "batchResults"} THEN << >>
        ELSE MonoNewBookManager[f]]

CountIn(list, x) == Cardinality({i \in DOMAIN list : list[i] = x})

\* a Set.add that appends without looking
SetAddAlways(set, x) == Append(set, x)

\* Set.prototype.add on a Set kept in insertion order
SetAdd(set, x) ==
    IF \E i \in DOMAIN set : set[i] = x THEN set ELSE Append(set, x)

RECURSIVE SetFromList(_)
\* new Set(array)
SetFromList(list) ==
    IF list = << >> THEN << >>
    ELSE SetAdd(SetFromList(SubSeq(list, 1, Len(list) - 1)), list[Len(list)])

\* BookManager.saveState: characters as entries (JSON.stringify writes a Set
\* as {}), plotPoints as an array
MonoSnapshot(bm) ==
    [progress    |-> bm.progressState,
     characters  |-> [n \in DOMAIN bm.characters |->
                        [bm.characters[n] EXCEPT !.appearances = {}]],
     plotPoints  |-> bm.plotPoints,
     bookContent |-> bm.bookContent,
     outline     |-> bm.outline,
     metadata    |-> bm.metadata]

\* BookManager.loadState, the assignments
MonoRestore(bm, state) ==
    [bm EXCEPT !.progressState = state.progress,
               !.characters = state.characters,
               !.plotPoints = SetFromList(state.plotPoints),
               !.bookContent = state.bookContent,
               !.outline = state.outline,
               !.metadata = state.metadata]

\* BookManager.loadState, the try / catch: every failure gives false
BookManagerLoadState(read) ==
    IF read.err = "none"
    THEN [kind |-> "value", value |-> read.state, err |-> "none"]
    ELSE [kind |-> "null", value |-> NoValue, err |-> "none"]

\* BookManager.addCharacter
AddCharacter(bm, name, details) ==
    [bm EXCEPT !.characters =
        [n \in DOMAIN @ \cup {name} |->
            IF n = name
            THEN [details |-> details,
                  firstAppearance |-> bm.currentChapter,
                  appearances |-> {bm.currentChapter}]
            ELSE @[n]]]

CharLists ==
    {<< >>} \cup {<<[name |-> n, details |-> d]>> :
                    n \in CharacterNames, d \in CharacterDetails}

PointLists ==
    {<< >>} \cup {<<x>> : x \in PlotStrings}
            \cup {<<x, y>> : x \in PlotStrings, y \in PlotStrings}

\* responses of the extraction call: what the text holds, and whether the
\* text is JSON at all
MetaResponses ==
    [parses : BOOLEAN, characters : CharLists, plotPoints : PointLists]

DefaultMetadata == [characters |-> << >>, plotPoints |-> << >>]

\* an extraction that takes the lists of a response that is not JSON
ParseMetadataLenient(response) ==
    [characters |-> response.characters, plotPoints |-> response.plotPoints]

\* extractMetadata lines 645-656: JSON.parse, defaults when it throws
ParseMetadata(response) ==
    IF response.parses
    THEN [characters |-> response.characters,
          plotPoints |-> response.plotPoints]
    ELSE DefaultMetadata

RECURSIVE AddCharacters(_, _)
\* extractMetadata lines 658-663
AddCharacters(bm, chars) ==
    IF chars = << >> THEN bm
    ELSE AddCharacters(AddCharacter(bm, Head(chars).name, Head(chars).details),
                       Tail(chars))

RECURSIVE AddPlotPoints(_, _)
\* extractMetadata lines 665-670
AddPlotPoints(set, points) ==
    IF points = << >> THEN set
    ELSE AddPlotPoints(SetAdd(set, Head(points)), Tail(points))

\* a merge that keeps only the plot points of the last page
MergeMetadataReplace(bm, metadata) ==
    [AddCharacters(bm, metadata.characters) EXCEPT
        !.plotPoints = SetFromList(metadata.plotPoints)]

\* extractMetadata lines 658-670: both loops
MergeMetadata(bm, metadata) ==
    [AddCharacters(bm, metadata.characters) EXCEPT
        !.plotPoints = AddPlotPoints(@, metadata.plotPoints)]

Min(a, b) == IF a < b THEN a ELSE b

Absorb(kind) == IF absorbed = "none" THEN kind ELSE absorbed

\* createBookPageByPage lines 1073-1078: where control goes for chapter ch
MonoLoopPc(ch) ==
    IF ch > chapters THEN "compile"
    ELSE IF progressCallback THEN "callback"
    ELSE "context"

\* what only the start of a run changes
monoFixed == <<chapters, pagesPerChapter, progressCallback, runs,
               prevBoundary, storeVars, controller, language, compiled,
               session>>

\* the manager of an earlier run that stopped after page 1 of chapter 1
EarlierBookManager ==
    MergeMetadata(
        RecordPage([MonoNewBookManager EXCEPT !.outline = "o1",
                                              !.metadata.coverImage = "u1"],
                   1, 1, "a"),
        [characters |-> <<[name |-> "John", details |-> "d1"]>>,
         plotPoints |-> <<"Twist">>])

\* book_state.json before the first run of the model: absent, or the
\* checkpoint the catch block of that earlier run wrote
EarlierFiles == {NoFile, FileHolding(MonoSnapshot(EarlierBookManager))}

MonoInit ==
    /\ chapters \in 1..MaxBookChapters
    /\ pagesPerChapter \in 1..MaxBookPages
    /\ disk \in EarlierFiles
    /\ files = NoArtifacts
    /\ SeqIdle
    /\ StoreIdle
    /\ MonoIdle

\* createBookPageByPage or createBookWithBatch is called: new manager
MonoStartRun ==
    /\ pc = "idle"
    /\ outcome = "none"
    /\ runs' = runs + 1
    /\ \E c \in {"sequential", "batch"} : \E l \in Languages :
       \E cb \in BOOLEAN :
         /\ c = "sequential" => l = "en"
         /\ c = "batch" => ~cb
         /\ controller' = c
         /\ language' = l
         /\ progressCallback' = cb
         /\ bookManager' = IF c = "batch" THEN NewBatchBookManager
                           ELSE MonoNewBookManager
    /\ pc' = "loadState"
    /\ chapter' = 0
    /\ page' = 0
    /\ pageContent' = Absent
    /\ error' = NoError
    /\ outcome' = "none"
    /\ raised' = NoError
    /\ log' = << >>
    /\ loaded' = NoFile
    /\ jobStatus' = "none"
    /\ lastExtract' = "none"
    /\ merged' = [s \in PlotStrings |-> 0]
    /\ absorbed' = "none"
    /\ files' = NoArtifacts
    /\ UNCHANGED <<chapters, pagesPerChapter, disk, prevBoundary, storeVars,
                   compiled, session>>

\* await bookManager.loadState() / await batchManager.loadState()
MonoLoadState ==
    /\ pc = "loadState"
    /\ \E read \in FsRead(disk) :
         LET state == BookManagerLoadState(read)
             hasState == state.kind = "value"
         IN /\ bookManager' = IF hasState
                              THEN MonoRestore(bookManager, state.value)
                              ELSE bookManager
            /\ absorbed' = IF read.err \in {"none", "ENOENT"} THEN absorbed
                           ELSE Absorb("loadState")
            /\ pc' = IF controller = "batch" THEN "batchOutline"
                     ELSE IF hasState THEN "cover" ELSE "outline"
    /\ UNCHANGED <<disk, chapter, page, pageContent, error, outcome, raised,
                   log, loaded, jobStatus, lastExtract, merged>>
    /\ UNCHANGED <<monoFixed, files>>

\* BookManager.createOutline: the request, the assignment and saveOutline,
\* whose write failure is only printed
OutlineStep(next) ==
    \/ \E o \in MonoOutlines : \E saved \in BOOLEAN :
         /\ bookManager' = [bookManager EXCEPT !.outline = o]
         /\ log' = Append(log, Event("outline", 0, 0, TRUE))
         /\ absorbed' = IF saved THEN absorbed ELSE Absorb("saveOutline")
         /\ pc' = next
         /\ UNCHANGED error
    \/ /\ log' = Append(log, Event("outline", 0, 0, FALSE))
       /\ Throw("outline")
       /\ UNCHANGED <<bookManager, absorbed>>

\* createBookPageByPage: await bookManager.createOutline(theme, chapters)
MonoCreateOutline ==
    /\ pc = "outline"
    /\ OutlineStep("cover")
    /\ UNCHANGED <<disk, chapter, page, pageContent, outcome, raised, loaded,
                   jobStatus, lastExtract, merged>>
    /\ UNCHANGED <<monoFixed, files>>

\* createBookPageByPage: the cover, saveMetadata, the start of the loop
MonoGenerateCover ==
    /\ pc = "cover"
    /\ \/ /\ ~NeedsCover(bookManager)
          /\ chapter' = StartChapter(bookManager)
          /\ page' = 1
          /\ pc' = MonoLoopPc(StartChapter(bookManager))
          /\ UNCHANGED <<bookManager, log, error>>
       \/ /\ NeedsCover(bookManager)
          /\ \E u \in CoverUrls :
               bookManager' = [bookManager EXCEPT !.metadata.coverImage = u]
          /\ log' = Append(log, Event("image", 0, 0, TRUE))
          /\ \/ /\ chapter' = StartChapter(bookManager)
                /\ page' = 1
                /\ pc' = MonoLoopPc(StartChapter(bookManager))
                /\ UNCHANGED error
             \/ /\ Throw("metadataSave")
                /\ UNCHANGED <<chapter, page>>
       \/ /\ NeedsCover(bookManager)
          /\ log' = Append(log, Event("image", 0, 0, FALSE))
          /\ Throw("image")
          /\ UNCHANGED <<bookManager, chapter, page>>
    /\ UNCHANGED <<disk, pageContent, outcome, raised, loaded, jobStatus,
                   lastExtract, merged, absorbed>>
    /\ UNCHANGED <<monoFixed, files>>

\* createBookPageByPage: await progressCallback(chapter, 1)
MonoProgressCallback ==
    /\ pc = "callback"
    /\ \/ /\ log' = Append(log, Event("callback", chapter, 1, TRUE))
          /\ pc' = "context"
          /\ UNCHANGED error
       \/ /\ log' = Append(log, Event("callback", chapter, 1, FALSE))
          /\ Throw("cancelled")
    /\ UNCHANGED <<disk, bookManager, chapter, page, pageContent, outcome,
                   raised, loaded, jobStatus, lastExtract, merged, absorbed>>
    /\ UNCHANGED <<monoFixed, files>>

\* generateChapterPages: the loadProgress calls for the earlier pages;
\* a read that fails is printed and the page left out
LoadPreviousPages ==
    /\ pc = "context"
    /\ \E failed \in BOOLEAN :
         /\ failed => page > 1
         /\ absorbed' = IF failed THEN Absorb("loadProgress") ELSE absorbed
    /\ pc' = "generate"
    /\ lastExtract' = "none"
    /\ UNCHANGED <<disk, bookManager, chapter, page, pageContent, error,
                   outcome, raised, log, loaded, jobStatus, merged>>
    /\ UNCHANGED <<monoFixed, files>>

\* generateChapterPages: await this.generatePage(chapter, page, ...)
MonoGeneratePage ==
    /\ pc = "generate"
    /\ \/ \E t \in PageTexts :
            /\ pageContent' = t
            /\ log' = Append(log, Event("generate", chapter, page, TRUE))
            /\ pc' = "saveProgress"
            /\ UNCHANGED error
       \/ /\ log' = Append(log, Event("generate", chapter, page, FALSE))
          /\ Throw("generation")
          /\ UNCHANGED pageContent
    /\ UNCHANGED <<disk, bookManager, chapter, page, outcome, raised, loaded,
                   jobStatus, lastExtract, merged, absorbed>>
    /\ UNCHANGED <<monoFixed, files>>

\* generateChapterPages: saveProgress (the page files), then bookContent
MonoSaveProgress ==
    /\ pc = "saveProgress"
    /\ \/ \* the write of the page JSON throws
          /\ log' = Append(log, Event("artifact", chapter, page, FALSE))
          /\ Throw("artifact")
          /\ UNCHANGED <<bookManager, files, pageContent>>
       \/ \* the page JSON is written, saveAsDocx throws
          /\ files' = JsonWritten(chapter, page,
                          JsonStringify(PageRecord(pageContent, chapter, page)))
          /\ log' = Append(log, Event("artifact", chapter, page, FALSE))
          /\ Throw("artifact")
          /\ UNCHANGED <<bookManager, pageContent>>
       \/ /\ files' = DocxWritten(
                          JsonWritten(chapter, page,
                              JsonStringify(PageRecord(pageContent, chapter, page))),
                          DocxBuffer(pageContent, chapter, page))
          /\ bookManager' = RecordPage(bookManager, chapter, page, pageContent)
          /\ log' = Append(log, Event("artifact", chapter, page, TRUE))
          /\ pageContent' = Absent
          /\ pc' = "extract"
          /\ UNCHANGED error
    /\ UNCHANGED <<disk, chapter, page, outcome, raised, loaded, jobStatus,
                   lastExtract, merged, absorbed>>
    /\ UNCHANGED monoFixed

\* generateChapterPages: await this.extractMetadata(pageContent), page++
ExtractMetadata ==
    /\ pc = "extract"
    /\ \/ \* the extraction request throws: the outer catch returns defaults
          /\ lastExtract' = "callFailed"
          /\ absorbed' = Absorb("extractCall")
          /\ UNCHANGED <<bookManager, merged>>
       \/ \E response \in MetaResponses :
            LET metadata == ParseMetadata(response)
            IN /\ bookManager' = MergeMetadata(bookManager, metadata)
               /\ lastExtract' = IF response.parses THEN "ok" ELSE "malformed"
               /\ merged' = [s \in PlotStrings |->
                               Min(2, merged[s] + CountIn(metadata.plotPoints, s))]
               /\ UNCHANGED absorbed
    /\ page' = page + 1
    /\ pc' = IF page + 1 > pagesPerChapter THEN "chapterSave" ELSE "context"
    /\ UNCHANGED <<disk, chapter, pageContent, error, outcome, raised, log,
                   loaded, jobStatus>>
    /\ UNCHANGED <<monoFixed, files>>

\* createBookPageByPage: await bookManager.saveState() after a chapter
MonoChapterSaveState ==
    /\ pc = "chapterSave"
    /\ lastExtract' = "none"
    /\ \/ /\ disk' = WriteFile(MonoSnapshot(bookManager))
          /\ log' = Append(log, Event("chapterWrite", chapter, 0, TRUE))
          /\ chapter' = chapter + 1
          /\ page' = 1
          /\ pc' = MonoLoopPc(chapter + 1)
          /\ UNCHANGED error
       \/ /\ log' = Append(log, Event("chapterWrite", chapter, 0, FALSE))
          /\ Throw("write")
          /\ UNCHANGED <<disk, chapter, page>>
    /\ UNCHANGED <<bookManager, pageContent, outcome, raised, loaded,
                   jobStatus, merged, absorbed>>
    /\ UNCHANGED <<monoFixed, files>>

\* createBookPageByPage: compileBook and the return
MonoCompileBook ==
    /\ pc = "compile"
    /\ \/ /\ log' = Append(log, Event("compile", 0, 0, TRUE))
          /\ outcome' = "returned"
          /\ pc' = "idle"
          /\ UNCHANGED error
       \/ /\ log' = Append(log, Event("compile", 0, 0, FALSE))
          /\ Throw("compile")
          /\ UNCHANGED outcome
    /\ UNCHANGED <<disk, bookManager, chapter, page, pageContent, raised,
                   loaded, jobStatus, lastExtract, merged, absorbed>>
    /\ UNCHANGED <<monoFixed, files>>

\* the catch block of either controller: saveState, then throw error
CatchStep ==
    /\ \E ok \in BOOLEAN :
         /\ disk' = IF ok THEN WriteFile(MonoSnapshot(bookManager)) ELSE disk
         /\ log' = Append(log, Event("catchWrite", 0, 0, ok))
         /\ raised' = Rethrown(error, ok)
    /\ outcome' = "raised"
    /\ pc' = "idle"
    /\ UNCHANGED <<bookManager, chapter, page, pageContent, error, loaded,
                   jobStatus, lastExtract, merged, absorbed>>
    /\ UNCHANGED <<monoFixed, files>>

\* createBookPageByPage: the catch block
MonoCatch ==
    /\ pc = "catch"
    /\ controller = "sequential"
    /\ CatchStep

\* createBookWithBatch step 1: createOutline, on a resumed run too
BatchCreateOutline ==
    /\ pc = "batchOutline"
    /\ OutlineStep("batchCover")
    /\ UNCHANGED <<disk, chapter, page, pageContent, outcome, raised, loaded,
                   jobStatus, lastExtract, merged>>
    /\ UNCHANGED <<monoFixed, files>>

\* createBookWithBatch step 2: generateStoryImage
BatchCover ==
    /\ pc = "batchCover"
    /\ \/ /\ log' = Append(log, Event("image", 0, 0, TRUE))
          /\ pc' = "batchTasks"
          /\ UNCHANGED error
       \/ /\ log' = Append(log, Event("image", 0, 0, FALSE))
          /\ Throw("image")
    /\ UNCHANGED <<disk, bookManager, chapter, page, pageContent, outcome,
                   raised, loaded, jobStatus, lastExtract, merged, absorbed>>
    /\ UNCHANGED <<monoFixed, files>>

\* one task of createBatchTasks: its custom_id `chapter-${chapter}`, and the
\* outline and JSON.stringify(this.bookContent) put into its user message
Task(bm, c) ==
    [custom_id |-> <<"chapter", c>>,
     outline |-> bm.outline,
     context |-> JsonStringify(bm.bookContent)]

\* a createBatchTasks whose loop stops one chapter early
CreateBatchTasksShort(bm, n) ==
    [bm EXCEPT !.batchTasks = @ \o [c \in 1..(n - 1) |-> Task(bm, c)]]

\* BatchBookManager.createBatchTasks(chapters, theme)
CreateBatchTasks(bm, n) ==
    [bm EXCEPT !.batchTasks = @ \o [c \in 1..n |-> Task(bm, c)]]

\* createBookWithBatch step 3: await batchManager.createBatchTasks(...)
BatchCreateTasks ==
    /\ pc = "batchTasks"
    /\ bookManager' = CreateBatchTasks(bookManager, chapters)
    /\ pc' = "batchSubmit"
    /\ UNCHANGED <<disk, chapter, page, pageContent, error, outcome, raised,
                   log, loaded, jobStatus, lastExtract, merged, absorbed>>
    /\ UNCHANGED <<monoFixed, files>>

\* createBookWithBatch step 4: submitBatchJob writes one line per task,
\* uploads the file and creates the job; the event holds the number of lines
BatchSubmit ==
    /\ pc = "batchSubmit"
    /\ \/ /\ log' = Append(log, Event("submit", Len(bookManager.batchTasks),
                                     0, TRUE))
          /\ pc' = "batchPoll"
          /\ UNCHANGED error
       \/ /\ log' = Append(log, Event("submit", Len(bookManager.batchTasks),
                                     0, FALSE))
          /\ Throw("submit")
    /\ UNCHANGED <<disk, bookManager, chapter, page, pageContent, outcome,
                   raised, loaded, jobStatus, lastExtract, merged, absorbed>>
    /\ UNCHANGED <<monoFixed, files>>

\* the first poll that returned `status`, kept in the log
Polled(status) ==
    [op |-> "poll", ch |-> 0, pg |-> 0, ok |-> TRUE, status |-> status]

Seen(status) == \E i \in DOMAIN log : log[i] = Polled(status)

\* a loop that takes any status but 'in_progress' as the end of the job
AfterPollTerminal(status) ==
    IF status = "in_progress" THEN "batchWait" ELSE "batchProcess"

\* lines 1006-1010: wait and poll again unless the status is 'completed'
AfterPoll(status) ==
    IF status # "completed" THEN "batchWait" ELSE "batchProcess"

\* createBookWithBatch step 5: openai.batches.retrieve in the do-while loop
BatchPoll ==
    /\ pc = "batchPoll"
    /\ \/ \E status \in JobStatuses :
            /\ jobStatus' = status
            /\ log' = IF Seen(status) THEN log ELSE Append(log, Polled(status))
            /\ pc' = AfterPoll(status)
            /\ UNCHANGED error
       \/ /\ Throw("poll")
          /\ UNCHANGED <<jobStatus, log>>
    /\ UNCHANGED <<disk, bookManager, chapter, page, pageContent, outcome,
                   raised, loaded, lastExtract, merged, absorbed>>
    /\ UNCHANGED <<monoFixed, files>>

\* line 1008: the one-minute wait before the next poll
BatchWait ==
    /\ pc = "batchWait"
    /\ pc' = "batchPoll"
    /\ UNCHANGED <<disk, bookManager, chapter, page, pageContent, error,
                   outcome, raised, log, loaded, jobStatus, lastExtract,
                   merged, absorbed>>
    /\ UNCHANGED <<monoFixed, files>>

\* createBookWithBatch step 6: processBatchResults starts with
\* super.processBatchResults(resultFileId); BookManager has no such method,
\* so the call throws a TypeError
BatchProcessResults ==
    /\ pc = "batchProcess"
    /\ Throw("TypeError")
    /\ UNCHANGED <<disk, bookManager, chapter, page, pageContent, outcome,
                   raised, log, loaded, jobStatus, lastExtract, merged,
                   absorbed>>
    /\ UNCHANGED <<monoFixed, files>>

\* createBookWithBatch: the catch block
BatchCatch ==
    /\ pc = "catch"
    /\ controller = "batch"
    /\ CatchStep

MonoNext ==
    \/ MonoStartRun
    \/ MonoLoadState
    \/ MonoCreateOutline
    \/ MonoGenerateCover
    \/ MonoProgressCallback
    \/ LoadPreviousPages
    \/ MonoGeneratePage
    \/ MonoSaveProgress
    \/ ExtractMetadata
    \/ MonoChapterSaveState
    \/ MonoCompileBook
    \/ MonoCatch
    \/ BatchCreateOutline
    \/ BatchCover
    \/ BatchCreateTasks
    \/ BatchSubmit
    \/ BatchPoll
    \/ BatchWait
    \/ BatchProcessResults
    \/ BatchCatch

MonoSpec == MonoInit /\ [][MonoNext]_vars

\* the event loop runs every continuation and every timer that is due: a
\* run that can take a step takes one
MonoLiveSpec == MonoSpec /\ WF_vars(MonoNext)

\* ----------------------------------------- claims on the single-file program

\* the calls of the generation service a run has made
ServiceOps == {"outline", "image", "submit", "generate"}

ServiceCalls == SelectSeq(log, LAMBDA e : e.op \in ServiceOps)

LastLogged(ops) == log # << >> /\ log[Len(log)].op \in ops /\ log[Len(log)].ok

\* C16: a metadata merge that mentions a character already known keeps the
\* character's description and first-appearance chapter, never removes an
\* element of its appearances, and leaves the current chapter in them.
C16_CharacterMonotone ==
    [][pc = "extract" =>
        \A n \in DOMAIN bookManager.characters :
            /\ n \in DOMAIN bookManager'.characters
            /\ bookManager'.characters[n].details =
                   bookManager.characters[n].details
            /\ bookManager'.characters[n].firstAppearance =
                   bookManager.characters[n].firstAppearance
            /\ bookManager.characters[n].appearances \subseteq
                   bookManager'.characters[n].appearances]_vars

\* C17: a plot-point string merged once or more in a run is in plotPoints
\* exactly once; no string is twice in plotPoints or in the plotPoints of the
\* checkpoint file; a checkpoint just written holds the list in memory; the
\* strings "Twist" and "twist" are separate entries.
C17_PlotPointsOnce ==
    /\ \A x \in PlotStrings :
         /\ CountIn(bookManager.plotPoints, x) <= 1
         /\ merged[x] >= 1 => CountIn(bookManager.plotPoints, x) = 1
         /\ CountIn(disk.state.plotPoints, x) <= 1
    /\ LastLogged({"chapterWrite", "catchWrite"}) =>
         disk.state.plotPoints = bookManager.plotPoints

\* C17 witness: "Twist" merged twice and "twist" once in one run, and the
\* checkpoint written after it
C17_Witness ==
    /\ merged["Twist"] = 2
    /\ merged["twist"] = 1
    /\ Len(bookManager.plotPoints) = 2
    /\ LastLogged({"chapterWrite"})
    /\ disk.exists
    /\ Len(disk.state.plotPoints) = 2

\* C18: an extraction whose response is not JSON changes neither characters
\* nor plotPoints, raises nothing, leaves the page in bookContent and goes on
\* to the next page (or to the end of the chapter).
C18_MalformedExtraction ==
    [][(pc = "extract" /\ lastExtract' = "malformed") =>
        /\ bookManager'.characters = bookManager.characters
        /\ bookManager'.plotPoints = bookManager.plotPoints
        /\ error' = NoError
        /\ pc' = IF page < pagesPerChapter THEN "context" ELSE "chapterSave"
        /\ page' = page + 1
        /\ HasPage(bookManager'.bookContent, chapter, page)]_vars

\* C18 witness: page 1 extracted with a malformed response while a character
\* and a plot point were known, page 2 about to be generated
C18_Witness ==
    /\ lastExtract = "malformed"
    /\ pc = "context"
    /\ page = 2
    /\ HasPage(bookManager.bookContent, 1, 1)
    /\ error = NoError
    /\ DOMAIN bookManager.characters # {}
    /\ bookManager.plotPoints # << >>

\* C19: a batch run asked for an unsupported language makes no call of the
\* generation service, and ends with the unsupported-language error.
C19_UnsupportedLanguage ==
    (controller = "batch" /\ language \notin SupportedLanguages) =>
        /\ ServiceCalls = << >>
        /\ outcome # "none" => raised = "unsupportedLanguage"

\* C20: a run that returns to its caller without an error has had no failing
\* service call and no failing storage read or write.
C20_NothingSwallowed ==
    outcome = "returned" => absorbed = "none"

\* --------------------------------------------------- claims on both programs

\* the positions of the log that hold a call op for unit (c, p)
Calls(op, c, p) ==
    {i \in DOMAIN log : log[i].op = op /\ log[i].ch = c /\ log[i].pg = p}

\* C21: in a run that was given a progress callback, every page-generation
\* call for a unit (c, p) comes after exactly one callback call with (c, p),
\* and no unit has two callback calls.
C21_CallbackProtocol ==
    progressCallback =>
        \A i \in DOMAIN log :
            /\ log[i].op = "generate" =>
                 /\ Cardinality(Calls("callback", log[i].ch, log[i].pg)) = 1
                 /\ \A j \in Calls("callback", log[i].ch, log[i].pg) : j < i
            /\ log[i].op = "callback" =>
                 Cardinality(Calls("callback", log[i].ch, log[i].pg)) = 1

\* the saveProgress step under way wrote both page files
ArtifactsWritten ==
    \E i \in DOMAIN log' : i > Len(log) /\ log'[i].op = "artifact" /\ log'[i].ok

\* C22: a saveProgress(content, c, p) call whose page files are written
\* leaves the JSON text of {chapter, page, content, timestamp} in the .json
\* file and the export document in the .docx file of (c, p), and progress at
\* (c, p, 'in_progress'); when it returns, the checkpoint holds that
\* progress; when a page-file write fails, progress is what it was.
C22_PerUnitPersistence ==
    [][pc = "saveProgress" =>
        /\ ArtifactsWritten =>
             /\ files'.chapter = chapter
             /\ files'.page = page
             /\ files'.json =
                    JsonStringify(PageRecord(pageContent, chapter, page))
             /\ files'.docx = DocxBuffer(pageContent, chapter, page)
             /\ bookManager'.progressState =
                    [lastCompletedChapter |-> chapter,
                     lastCompletedPage |-> page,
                     status |-> "in_progress"]
        /\ pc' # "catch" =>
             /\ ArtifactsWritten
             /\ disk'.exists
             /\ disk'.state.progress = bookManager'.progressState
        /\ error' = "artifact" =>
             bookManager'.progressState = bookManager.progressState]_vars

\* unit (c1, p1) comes before unit (c2, p2)
Before(c1, p1, c2, p2) == c1 < c2 \/ (c1 = c2 /\ p1 < p2)

\* the saveProgress step under way wrote the checkpoint
CheckpointWritten ==
    \E i \in DOMAIN log' : i > Len(log) /\ log'[i].op = "write" /\ log'[i].ok

\* C23: whenever a run makes a call, every earlier page-generation call of
\* the run is for an earlier unit than a new generation call, every earlier
\* per-page checkpoint write is for an earlier unit than a new one (so no
\* unit twice, units in increasing (chapter, page) order), and a new callback
\* or generation call finds, after each earlier generation call, the
\* successful checkpoint write of that call's unit.
C23_StrictUnitOrder ==
    [][\A j \in DOMAIN log' :
        j > Len(log) =>
          /\ log'[j].op \in {"generate", "write"} =>
               \A i \in DOMAIN log :
                   log[i].op = log'[j].op =>
                       Before(log[i].ch, log[i].pg, log'[j].ch, log'[j].pg)
          /\ log'[j].op \in {"callback", "generate"} =>
               \A i \in DOMAIN log :
                   log[i].op = "generate" =>
                       \E k \in DOMAIN log :
                           /\ i < k
                           /\ log[k] = Event("write", log[i].ch, log[i].pg, TRUE)]_vars

\* C23 witness: a run that generated and checkpointed (1,1), (1,2) and has
\* issued the generation call of (2,1)
C23_Witness ==
    /\ pagesPerChapter = 2
    /\ progressCallback
    /\ Calls("write", 1, 1) # {}
    /\ Calls("write", 1, 2) # {}
    /\ Calls("generate", 2, 1) # {}

\* C24: in the saveProgress step of unit (c, p) the page is in the content
\* map before the checkpoint is written, so the checkpoint written holds page
\* (c, p), and the progress counters change only when that write succeeded.
C24_StepOrder ==
    [][pc = "saveProgress" =>
        /\ CheckpointWritten =>
             HasPage(disk'.state.bookContent, chapter, page)
        /\ bookManager'.progressState # bookManager.progressState =>
             CheckpointWritten]_vars

\* C25: once the checkpoint file holds an outline, no step of a later run of
\* either controller changes the outline held in the file.
C25_OutlineImmutable ==
    [][(disk.exists /\ disk.state.outline \in MonoOutlines) =>
         disk'.state.outline = disk.state.outline]_vars

\* C26: the batch controller is about to process results only when the last
\* poll returned 'completed'; a poll that returns another status is followed
\* by the wait, and the wait by the next poll.
C26_PollingGate ==
    [][/\ pc = "batchProcess" => jobStatus = "completed"
       /\ pc' = "batchProcess" => (pc = "batchPoll" /\ jobStatus' = "completed")
       /\ (pc = "batchPoll" /\ pc' \notin {"batchProcess", "catch"}) =>
            (pc' = "batchWait" /\ jobStatus' # "completed")
       /\ pc = "batchWait" => (pc' = "batchPoll" /\ jobStatus' = jobStatus)]_vars

\* C26 witness: results about to be processed after polls that returned
\* 'in_progress', 'failed' and at last 'completed'
C26_Witness ==
    /\ pc = "batchProcess"
    /\ jobStatus = "completed"
    /\ Seen("in_progress")
    /\ Seen("failed")
    /\ Seen("completed")

\* what an edit / proofreading pass can return
EditedTexts == {"e"}

\* C27: the step that processes the results of a completed job for chapters
\* 1..N leaves, for each of these chapters, the output of the edit pass in
\* bookContent and in the checkpoint file.
C27_BatchMergeEdited ==
    [][pc = "batchProcess" =>
        \A c \in 1..chapters :
            /\ \E p \in PageIds : bookManager'.bookContent[c][p] \in EditedTexts
            /\ disk'.exists
            /\ \E p \in PageIds : disk'.state.bookContent[c][p] \in EditedTexts]_vars

\* C28: the step that processes the results of a completed job for chapters
\* 1..N in order leaves lastCompletedChapter at the maximum of its old value
\* and N, never smaller than before, and that value in the checkpoint file.
C28_BatchProgressMax ==
    [][pc = "batchProcess" =>
        LET old == bookManager.progressState.lastCompletedChapter
            new == bookManager'.progressState.lastCompletedChapter
        IN /\ new = IF old > chapters THEN old ELSE chapters
           /\ disk'.exists
           /\ disk'.state.progress.lastCompletedChapter = new]_vars

\* C29: once createBatchTasks(N, theme) has run in a batch run, batchTasks
\* holds N tasks, the c-th with id chapter-c, the current outline and the
\* whole content map, and a submitted job has N lines.
C29_BatchTasks ==
    (controller = "batch"
       /\ pc \in {"batchSubmit", "batchPoll", "batchWait", "batchProcess"}) =>
        /\ Len(bookManager.batchTasks) = chapters
        /\ \A c \in 1..chapters :
             /\ bookManager.batchTasks[c].custom_id = <<"chapter", c>>
             /\ bookManager.batchTasks[c].outline = bookManager.outline
             /\ bookManager.batchTasks[c].context =
                    JsonStringify(bookManager.bookContent)
        /\ \A i \in DOMAIN log : log[i].op = "submit" => log[i].ch = chapters

\* C29 witness: a job of two tasks submitted by a run that resumed a content
\* map with a page in it
C29_Witness ==
    /\ controller = "batch"
    /\ pc = "batchPoll"
    /\ chapters = 2
    /\ Len(bookManager.batchTasks) = 2
    /\ bookManager.outline = "o2"
    /\ ContentChapters(bookManager.bookContent) # {}
    /\ \E i \in DOMAIN log : log[i] = Event("submit", 2, 0, TRUE)

\* C30: a batch run whose job completed and that has ended has made, for a
\* supported language other than 'en', one translation call for page 1 of
\* each chapter of the content map and no other, and for 'en' none.
C30_TranslationFirstPages ==
    (controller = "batch" /\ jobStatus = "completed" /\ outcome # "none"
       /\ language \in SupportedLanguages) =>
        LET calls == {i \in DOMAIN log : log[i].op = "translate"}
            wanted == IF language = "en" THEN {}
                      ELSE ContentChapters(bookManager.bookContent)
        IN /\ \A i \in calls : log[i].ch \in wanted /\ log[i].pg = 1
           /\ \A c \in wanted :
                Cardinality({i \in calls : log[i].ch = c}) = 1

\* ------------------------------------------------- the context of a unit

\* line 60 of createBookPageByPage: the prompt of the page-generation call,
\* a template filled with page, chapter and bookManager.outline
Prompt(bm, c, p) == [page |-> p, chapter |-> c, outline |-> bm.outline]

\* the texts of pages 1..p-1 of chapter c of a content map, in page order
PagesBefore(content, c, p) == [q \in 1..(p - 1) |-> content[c][q]]

\* C31: the prompt of the generation call for unit (c, p) holds the outline,
\* the texts of exactly the pages 1..p-1 of chapter c in increasing page
\* order, the character table and the plot points.
C31_PromptContext ==
    (pc = "generate" /\ page > 1) =>
        LET prompt == Prompt(bookManager, chapter, page)
        IN /\ prompt.outline = bookManager.outline
           /\ "previousPages" \in DOMAIN prompt
           /\ prompt.previousPages =
                  PagesBefore(bookManager.bookContent, chapter, page)
           /\ "characters" \in DOMAIN prompt
           /\ prompt.characters = bookManager.characters
           /\ "plotPoints" \in DOMAIN prompt
           /\ prompt.plotPoints = bookManager.plotPoints

\* ------------------------------------------------- metadata during a run

\* the strings a Set kept in insertion order holds
Elements(set) == {set[i] : i \in DOMAIN set}

\* C32: after the checkpoint load of a run, no step of the run removes a
\* character name from characters or a string from plotPoints.
C32_MetadataGrows ==
    [][pc \notin {"idle", "loadState"} =>
        /\ DOMAIN bookManager.characters \subseteq
               DOMAIN bookManager'.characters
        /\ Elements(bookManager.plotPoints) \subseteq
               Elements(bookManager'.plotPoints)]_vars

\* C32 witness: a run that loaded a checkpoint with John and "Twist" has
\* merged a page that describes John again and adds "twist"
C32_Witness ==
    /\ controller = "sequential"
    /\ lastExtract = "ok"
    /\ bookManager.metadata.coverImage = "u1"
    /\ "John" \in DOMAIN bookManager.characters
    /\ bookManager.characters["John"].details = "d2"
    /\ bookManager.plotPoints = <<"Twist", "twist">>

\* ------------------------------------------------------------ compilation

\* the units of a section list, section after section
SectionUnits(sections) ==
    UNION {{sections[i][j].heading : j \in DOMAIN sections[i]} :
             i \in DOMAIN sections}

\* C33: compileBook is called only when the chapter loop has run through
\* every chapter from the start chapter on, and the document it writes holds
\* the pages of the content map, each once with its text, in increasing
\* chapter order and within a chapter in increasing page order, whatever the
\* order in which the keys of the content map were inserted.
C33_CompileOrder ==
    [][pc = "compile" =>
        /\ chapter > chapters
        /\ \A c \in ChapterIds : \A p \in 1..pagesPerChapter :
             (c >= StartChapter([progressState |-> loaded.state.progress])
                /\ c <= chapters) =>
                 \E i \in DOMAIN log : log[i] = Event("write", c, p, TRUE)
        /\ outcome' = "returned" =>
             LET content == bookManager.bookContent
                 sections == compiled'.docx.json.sections
             IN /\ SectionUnits(sections) =
                       {<<c, p>> \in ChapterIds \X PageIds : HasPage(content, c, p)}
                /\ \A i \in DOMAIN sections : \A j \in DOMAIN sections[i] :
                     /\ sections[i][j].text =
                            content[sections[i][j].heading[1]]
                                   [sections[i][j].heading[2]]
                     /\ \A k \in DOMAIN sections : \A l \in DOMAIN sections[k] :
                          (i < k \/ (i = k /\ j < l)) =>
                              Before(sections[i][j].heading[1],
                                     sections[i][j].heading[2],
                                     sections[k][l].heading[1],
                                     sections[k][l].heading[2])]_vars

\* C33 witness: a run over two chapters of two pages has returned and
\* complete.docx holds two sections of two pages
C33_Witness ==
    /\ pc = "idle"
    /\ outcome = "returned"
    /\ chapters = 2
    /\ pagesPerChapter = 2
    /\ compiled.docx # NoArtifact
    /\ Len(compiled.docx.json.sections) = 2
    /\ Len(compiled.docx.json.sections[1]) = 2
    /\ compiled.docx.json.sections[2][1].heading = <<2, 1>>

\* ------------------------------------------------------- a failed load

\* C34: a run whose checkpoint load failed with an error other than
\* not-found ends by raising, and the step that ends it leaves the
\* checkpoint file as it was.
C34_FailedLoadKeepsCheckpoint ==
    [][(pc = "catch" /\ error = "read") =>
        /\ outcome' = "raised"
        /\ disk' = disk]_vars

\* ------------------------------------------------------ batch termination

\* C35: a batch run that has polled 'completed' ends, and a batch run whose
\* polls return 'failed' from some point on ends by raising an error.
C35_BatchTermination ==
    /\ (controller = "batch" /\ jobStatus = "completed") ~> (outcome # "none")
    /\ <>[](controller = "batch" /\ jobStatus = "failed") =>
           <>(outcome = "raised")

\* ----------------------------------------------------- checkpoint round trip

\* what loadState on a new manager restores from the file saveState of bm
\* writes, the read succeeding
RoundTrip(bm) ==
    LET file == FileHolding(MonoSnapshot(bm))
        read == CHOOSE r \in FsRead(file) : r.err = "none"
    IN MonoRestore(MonoNewBookManager, BookManagerLoadState(read).value)

\* C36: saveState followed by loadState on a new manager restores the
\* progress, content, outline, metadata and plot points of the manager and,
\* for every character, the same record with the same appearance chapters.
C36_CheckpointRoundTrip ==
    LET restored == RoundTrip(bookManager)
    IN /\ restored.progressState = bookManager.progressState
       /\ restored.bookContent = bookManager.bookContent
       /\ restored.outline = bookManager.outline
       /\ restored.metadata = bookManager.metadata
       /\ Elements(restored.plotPoints) = Elements(bookManager.plotPoints)
       /\ DOMAIN restored.characters = DOMAIN bookManager.characters
       /\ \A n \in DOMAIN bookManager.characters :
            /\ restored.characters[n].details =
                   bookManager.characters[n].details
            /\ restored.characters[n].firstAppearance =
                   bookManager.characters[n].firstAppearance
            /\ restored.characters[n].appearances =
                   bookManager.characters[n].appearances

\* --------------------------------------------------- the cursor in a run

\* the step under way wrote the checkpoint file
WroteCheckpoint ==
    \E j \in DOMAIN log' :
        j > Len(log) /\ log'[j].op \in CheckpointOps /\ log'[j].ok

\* C37: from the second checkpoint a run writes on, the cursor of the
\* checkpoint written is not before the cursor of the checkpoint the run
\* wrote last, and its status is 'not_started' only if that one's was.
C37_CursorMonotone ==
    [][(WroteCheckpoint
          /\ \E i \in DOMAIN log : log[i].op \in CheckpointOps /\ log[i].ok) =>
        /\ NotBefore(disk'.state.progress.lastCompletedChapter,
                     disk'.state.progress.lastCompletedPage,
                     disk.state.progress.lastCompletedChapter,
                     disk.state.progress.lastCompletedPage)
        /\ disk'.state.progress.status = "not_started" =>
               disk.state.progress.status = "not_started"]_vars

\* C37 witness: a resumed run has written the checkpoints of (2, 1) and
\* (2, 2), the chapter checkpoint, and that of its catch block
C37_Witness ==
    /\ Resumed
    /\ outcome = "raised"
    /\ \E i, j, k, l \in DOMAIN log :
         /\ i < j /\ j < k /\ k < l
         /\ log[i] = Event("write", 2, 1, TRUE)
         /\ log[j] = Event("write", 2, 2, TRUE)
         /\ log[k] = Event("chapterWrite", 2, 0, TRUE)
         /\ log[l] = Event("catchWrite", 0, 0, TRUE)
    /\ Cursor(disk.state.progress) = <<2, 2>>

\* ------------------------------------------------------- successful runs

\* the units of the two loops that are still to come, the rest of the
\* chapter under way included
UnitsLeft == (chapters + 1 - chapter) * (pagesPerChapter + 1) - page

\* a bound on the number of steps a run can still take
StepsLeft ==
    CASE pc = "idle" -> 0
      [] pc = "catch" -> 1
      [] pc = "compile" -> 2
      [] pc = "saveProgress" -> 3 * UnitsLeft + 4
      [] pc = "generate" -> 3 * UnitsLeft + 5
      [] pc \in {"callback", "chapterSave"} -> 3 * UnitsLeft + 6
      [] pc = "cover" -> 3 * chapters * (pagesPerChapter + 1) + 7
      [] pc = "outline" -> 3 * chapters * (pagesPerChapter + 1) + 8
      [] pc = "loadState" -> 3 * chapters * (pagesPerChapter + 1) + 9
      [] pc = "ensureDirectories" -> 3 * chapters * (pagesPerChapter + 1) + 10

\* what holds of a run that found no checkpoint, at its return
FreshRunComplete ==
    LoadedNothing =>
        /\ Count("generate") <= chapters * pagesPerChapter
        /\ (pc = "idle" /\ outcome = "returned") =>
             /\ \A i \in DOMAIN log : log[i].ok
             /\ Count("generate") = chapters * pagesPerChapter
             /\ \A c \in 1..chapters : \A p \in 1..pagesPerChapter :
                  Cardinality(Calls("generate", c, p)) = 1
             /\ Count("compile") = 1
             /\ \A c \in ChapterIds : \A p \in PageIds :
                  HasPage(bookManager.bookContent, c, p) <=>
                      (c <= chapters /\ p <= pagesPerChapter)

\* C38: every step of a run brings its end nearer, so every run ends; a
\* run that found no checkpoint never makes more than
\* chapters * pagesPerChapter page-generation calls, and when it returns
\* (no call, write or callback having failed) it has made exactly that
\* many, each unit once, has compiled once, and bookContent holds exactly
\* the pages 1..pagesPerChapter of the chapters 1..chapters.
C38_SuccessfulRunComplete ==
    [][/\ pc # "idle" => (StepsLeft' < StepsLeft /\ StepsLeft' >= 0)
       /\ FreshRunComplete']_vars

\* C38 witness: a run over two chapters of two pages that found no
\* checkpoint has returned
C38_Witness ==
    /\ LoadedNothing
    /\ pc = "idle"
    /\ outcome = "returned"
    /\ chapters = 2
    /\ pagesPerChapter = 2
    /\ Count("generate") = 4
    /\ Count("compile") = 1

\* ------------------------------------------------------ pause and stop

\* the step under way issues a page-generation call (the call of line 61
\* follows the return of the callback without an await in between)
IssuesGeneration == pc # "generate" /\ pc' = "generate"

\* C39 as stated: no step taken while the session is paused issues a
\* page-generation call or writes a checkpoint.
C39_NothingWhilePaused ==
    [][session.isPaused =>
        /\ ~IssuesGeneration
        /\ ~WroteCheckpoint
        /\ disk' = disk]_vars

\* C39: no step taken while the session is paused issues a page-generation
\* call; while a callback is waiting on the paused session the run makes no
\* call and writes no checkpoint, and the wait ends, once the session was
\* resumed, with the generation call for the very unit the callback was
\* called with, a unit this run has not generated before.
C39_PauseBetweenUnits ==
    [][/\ session.isPaused => ~IssuesGeneration
       /\ pc = "paused" =>
            /\ session.currentChapter = chapter
            /\ session.currentPage = page
            /\ ~GeneratedInRun(chapter, page)
            /\ disk' = disk
            /\ bookManager' = bookManager
            /\ chapter' = chapter /\ page' = page
            /\ pc' # "paused" =>
                 \/ pc' = "idle" /\ session'.isStopped
                 \/ /\ ~session.isPaused
                    /\ pc' = "generate"
                    /\ log' = Append(log, Event("callback", chapter, page, TRUE))
            /\ pc' = "paused" => log' = log
       /\ (pc = "generate" /\ log' # log) =>
            log' = Append(log, Event("generate", session.currentChapter,
                                     session.currentPage, log'[Len(log')].ok))]_vars

\* C39 witness: the session was paused while unit (1, 1) was in flight;
\* the unit and its checkpoint were completed and the callback of (1, 2)
\* is waiting
C39_Witness ==
    /\ pc = "paused"
    /\ session.isPaused
    /\ session.currentChapter = 1
    /\ session.currentPage = 2
    /\ log # << >>
    /\ log[Len(log)] = Event("write", 1, 1, TRUE)
    /\ Cursor(disk.state.progress) = <<1, 1>>

\* C40: a process that was told to stop has ended only through the
\* cancellation of the callback and the catch block: the run raised
\* 'Writing stopped by user' and the last thing it did was the checkpoint
\* write of the catch block.
C40_StopThroughHook ==
    (session.isStopped /\ ~Running) =>
        /\ outcome = "raised"
        /\ error = "cancelled"
        /\ LastLogged({"catchWrite"})

====
